---- MODULE Spec2Model ----
(***************************************************************************)
(* Message dispatch engine of the SMS dashboard (src/app.py).              *)
(*                                                                         *)
(* Processes:                                                              *)
(*   - worker_loop / process_queue_tick: one coroutine on the event loop.  *)
(*     The tick commits after every UPDATE and holds no transaction over   *)
(*     two statements, so each statement+commit is one atomic step.        *)
(*   - the HTTP handlers (contacts_add, contact_optout, unsubscribe,       *)
(*     campaigns_create, campaigns_start) are plain `def` routes, which    *)
(*     the framework runs on worker threads: they interleave with the      *)
(*     tick between any two of its statements.                             *)
(*   - contacts_import_csv is an `async def` route: it runs on the event   *)
(*     loop, between two ticks.                                            *)
(* The store is the SQLite database.                                       *)
(***************************************************************************)
EXTENDS Integers, Sequences, FiniteSets, TLC

\* ---------------------------------------------------------------- bounds
MaxMessages == 3        \* rows the messages table may hold
MaxNow == 2             \* last instant of the clock
EnvMaxDaily == 1        \* MAX_DAILY_PER_CONTACT as set in the environment

\* ------------------------------------------------------------- constants
EnvSendPerSecond == 2   \* SEND_PER_SECOND as set in the environment (the default)

Min2(a, b) == IF a < b THEN a ELSE b
Max2(a, b) == IF a > b THEN a ELSE b

SEND_PER_SECOND == Max2(1, Min2(30, EnvSendPerSecond))
MAX_DAILY_PER_CONTACT == Max2(1, Min2(20, EnvMaxDaily))

NoTime == 0             \* SQL NULL in a timestamp column
NoText == "NULL"        \* SQL NULL in a TEXT column

ERR_NO_CONSENT == "no consent or opted out"
ERR_DAILY_CAP == "daily cap reached"
ERR_PROVIDER == "AT send failed"
ERR_STORAGE == "database is locked"
PROVIDER_REF == "at_ref"

\* Phones that requests name, and ids the campaigns table assigns.
Phones == {1}
CampaignIds == {1}

\* date(t): the calendar day of an instant; two instants make a day.
Date(t) == t \div 2

\* Tag lists and target tags that forms submit (sequences of characters).
FormTags == {<<"a">>}
FormTargets == {<<"a">>}

VARIABLES
    now,        \* the clock read by datetime('now') / date('now')
    contacts,   \* contacts table: phone -> row
    campaigns,  \* campaigns table: sequence of rows, id = index
    messages,   \* messages table: sequence of rows, id = index
    pc,         \* position of worker_loop / process_queue_tick
    rows,       \* process_queue_tick: the fetched batch
    idx,        \* process_queue_tick: position in rows
    started,    \* process_queue_tick: campaigns fetched by the scan
    sidx,       \* process_queue_tick: position in started
    act,        \* campaigns_start request in progress
    hist,       \* history: what the running tick has done so far
    sendlog,    \* history: per message, the number of provider calls made for it
    audit_log   \* audit_log table: the number of its rows, kept on one bit

vars == <<now, contacts, campaigns, messages, pc, rows, idx, started, sidx, act, hist, sendlog,
          audit_log>>

\* ------------------------------------------------------------- helpers
RECURSIVE SetToSeq(_)
SetToSeq(S) ==
    IF S = {} THEN <<>>
    ELSE LET x == CHOOSE y \in S : \A z \in S : y <= z
         IN <<x>> \o SetToSeq(S \ {x})

NoContact == [present |-> FALSE, consented |-> 0, opted_out |-> 0, tags |-> <<>>]

MsgIds == 1..Len(messages)
CampIds == 1..Len(campaigns)

Terminal == {"sent", "failed", "skipped"}

\* lower(): ASCII lower-casing of one character.
LowerChar(ch) ==
    CASE ch = "A" -> "a"
      [] ch = "B" -> "b"
      [] ch = "Y" -> "y"
      [] OTHER -> ch

Lower(s) == [i \in 1..Len(s) |-> LowerChar(s[i])]

\* SQLite LIKE: % matches any run, _ any one character, letters fold case.
RECURSIVE Like(_, _)
Like(pat, s) ==
    IF pat = <<>> THEN s = <<>>
    ELSE IF Head(pat) = "%"
         THEN \E k \in 0..Len(s) : Like(Tail(pat), SubSeq(s, k + 1, Len(s)))
         ELSE /\ s # <<>>
              /\ \/ Head(pat) = "_"
                 \/ LowerChar(Head(pat)) = LowerChar(Head(s))
              /\ Like(Tail(pat), Tail(s))

\* campaigns_start: the recipient query.
Recipients(tbl, tag) ==
    {p \in Phones :
        /\ tbl[p].present
        /\ tbl[p].consented = 1
        /\ tbl[p].opted_out = 0
        /\ \/ tag = <<>>
           \/ Like(<<"%", ",">> \o Lower(tag) \o <<",", "%">>,
                   <<",">> \o Lower(tbl[p].tags) \o <<",">>)}

\* count_sent_today, with the count taken when the batch was fetched: the
\* messages of the running batch are left out.
count_sent_cached(msgs, contact_id, t) ==
    Cardinality({i \in 1..Len(msgs) :
        /\ msgs[i].contact_id = contact_id
        /\ msgs[i].status = "sent"
        /\ msgs[i].sent_at # NoTime
        /\ Date(msgs[i].sent_at) = Date(t)
        /\ \A k \in 1..Len(rows) : rows[k].id # i})

\* count_sent_today
count_sent_today(msgs, contact_id, t) ==
    Cardinality({i \in 1..Len(msgs) :
        /\ msgs[i].contact_id = contact_id
        /\ msgs[i].status = "sent"
        /\ msgs[i].sent_at # NoTime
        /\ Date(msgs[i].sent_at) = Date(t)})

\* WHERE m.status IN ('queued','failed'): a retrying selection.
QueuedIdsRetry(msgs) == {i \in 1..Len(msgs) : msgs[i].status \in {"queued", "failed"}}

\* process_queue_tick: WHERE m.status='queued'
QueuedIds(msgs) == {i \in 1..Len(msgs) : msgs[i].status = "queued"}

\* The batch query without its LIMIT.
BatchNoLimit(n) == n

\* process_queue_tick: LIMIT ?
BatchLimit(n) == Min2(SEND_PER_SECOND, n)

\* process_queue_tick: the "Safety checks" condition on a fetched row
NoConsent(r) == r.consented # 1 \/ r.opted_out = 1

\* The cap compared with > instead of >=.
CapReachedOffByOne(n) == n > MAX_DAILY_PER_CONTACT

\* process_queue_tick: the "Daily cap" condition
CapReached(n) == n >= MAX_DAILY_PER_CONTACT

\* The 'sent' write without sent_at.
SentWriteNoTime(m, ref, t) == [m EXCEPT !.status = "sent", !.provider_id = ref]

\* A provider failure recorded as a skip.
FailedAsSkipped(m, e) == [m EXCEPT !.status = "skipped", !.error = e]

\* A provider failure that puts the message back in the queue.
FailedRequeued(m, e) == [m EXCEPT !.status = "queued"]

\* The UPDATE statements of process_queue_tick, as row transformers.
SkippedWrite(m, reason) == [m EXCEPT !.status = "skipped", !.error = reason]
SendingWrite(m) == [m EXCEPT !.status = "sending"]
SentWrite(m, ref, t) == [m EXCEPT !.status = "sent", !.provider_id = ref, !.sent_at = t]
FailedWrite(m, e) == [m EXCEPT !.status = "failed", !.error = e]

\* campaigns_start: UPDATE campaigns SET started_at=datetime('now')
StartedWrite(c, t) == [c EXCEPT !.started_at = t]

\* process_queue_tick: UPDATE campaigns SET completed_at=datetime('now')
CompletedWrite(c, t) == [c EXCEPT !.completed_at = t]

\* campaigns_start: INSERT INTO messages ... 'queued'
NewMessage(cid, p, t) ==
    [campaign_id |-> cid, contact_id |-> p, status |-> "queued",
     provider_id |-> NoText, error |-> NoText, created_at |-> t, sent_at |-> NoTime]

IdleAct == [pc |-> "idle", cid |-> 0, recipients |-> {}]
NoTick ==
    [moved |-> 0, calls |-> 0, gate |-> "none", raised |-> FALSE, scanned |-> FALSE, zero |-> {}]

\* ------------------------------------------------------------- Init
Init ==
    /\ now = 1
    /\ contacts = [p \in Phones |-> NoContact]
    /\ campaigns = <<>>
    /\ messages = <<>>
    /\ pc = "sleep"
    /\ rows = <<>>
    /\ idx = 1
    /\ started = <<>>
    /\ sidx = 1
    /\ act = IdleAct
    /\ hist = NoTick
    /\ sendlog = <<>>
    /\ audit_log = 0

\* ------------------------------------------------------------- clock
AdvanceClock ==
    /\ now < MaxNow
    /\ now' = now + 1
    /\ UNCHANGED <<contacts, campaigns, messages, pc, rows, idx, started, sidx, act, hist, sendlog, audit_log>>

\* ------------------------------------------------------------- HTTP handlers
\* audit: INSERT INTO audit_log(action, meta). No statement of the program
\* reads the table or updates or deletes a row of it; the entry is counted.
audit(log) == (log + 1) % 2

\* The upsert with consented=excluded.consented.
MergeConsentOverwrite(old, new) == new

\* ON CONFLICT(phone) DO UPDATE SET consented=MAX(consented, excluded.consented)
MergeConsent(old, new) == Max2(old, new)

\* INSERT INTO contacts ... ON CONFLICT(phone) DO UPDATE
Upsert(tbl, p, tg, c) ==
    [tbl EXCEPT ![p] =
        IF tbl[p].present
        THEN [@ EXCEPT !.tags = tg, !.consented = MergeConsent(@, c)]
        ELSE [present |-> TRUE, consented |-> c, opted_out |-> 0, tags |-> tg]]

\* contacts_add
contacts_add ==
    \E p \in Phones, tg \in FormTags, c \in {0, 1} :
        /\ contacts' = Upsert(contacts, p, tg, c)
        /\ audit_log' = audit(audit_log)
        /\ UNCHANGED <<now, campaigns, messages, pc, rows, idx, started, sidx, act, hist, sendlog>>

\* contacts_import_csv: the consented cell, stripped and lower-cased.
CsvConsented(cell) ==
    IF Lower(cell) \in {<<"1">>, <<"t", "r", "u", "e">>, <<"y", "e", "s">>, <<"y">>} THEN 1 ELSE 0

\* Rows of an uploaded file; phone 0 is an empty phone cell.
CsvRow(p, c) == [phone |-> p, tags |-> <<"a">>, consented |-> c]

\* Uploaded files: a row without a phone, a consenting row, and a consenting
\* row followed by a row for the same phone with an empty consented cell.
CsvFiles ==
    {<<CsvRow(0, <<"1">>)>>,
     <<CsvRow(1, <<"Y">>)>>,
     <<CsvRow(1, <<"1">>), CsvRow(1, <<>>)>>}

\* contacts_import_csv: the loop over the rows, one upsert per row with a phone.
RECURSIVE ImportRows(_, _)
ImportRows(tbl, file) ==
    IF file = <<>> THEN tbl
    ELSE LET r == Head(file)
         IN ImportRows(IF r.phone \in Phones
                       THEN Upsert(tbl, r.phone, r.tags, CsvConsented(r.consented))
                       ELSE tbl,
                       Tail(file))

\* contacts_import_csv: all rows in one transaction, then the audit entry.
\* The handler is a coroutine of the event loop: it runs while worker_loop
\* is in its sleep, never between two statements of a tick.
contacts_import_csv ==
    \E file \in CsvFiles :
        /\ pc = "sleep"
        /\ contacts' = ImportRows(contacts, file)
        /\ audit_log' = audit(audit_log)
        /\ UNCHANGED <<now, campaigns, messages, pc, rows, idx, started, sidx, act, hist, sendlog>>

\* UPDATE contacts SET opted_out=1 WHERE ...
OptOutWrite(p) ==
    [contacts EXCEPT ![p] = IF @.present THEN [@ EXCEPT !.opted_out = 1] ELSE @]

\* contact_optout: admin opt-out by contact id
contact_optout ==
    \E p \in Phones :
        /\ contacts' = OptOutWrite(p)
        /\ audit_log' = audit(audit_log)
        /\ UNCHANGED <<now, campaigns, messages, pc, rows, idx, started, sidx, act, hist, sendlog>>

\* unsubscribe: public opt-out by phone
unsubscribe ==
    \E p \in Phones :
        /\ contacts' = OptOutWrite(p)
        /\ audit_log' = audit(audit_log)
        /\ UNCHANGED <<now, campaigns, messages, pc, rows, idx, started, sidx, act, hist, sendlog>>

\* campaigns_create
campaigns_create ==
    \E tg \in FormTargets :
        /\ Len(campaigns) + 1 \in CampaignIds
        /\ campaigns' = Append(campaigns,
              [target_tag |-> tg, started_at |-> NoTime, completed_at |-> NoTime])
        /\ audit_log' = audit(audit_log)
        /\ UNCHANGED <<now, contacts, messages, pc, rows, idx, started, sidx, act, hist, sendlog>>

\* campaigns_start, up to the recipient query: 404 for an id that is not in
\* the table, otherwise the recipients as the query returns them.
campaigns_start_read ==
    \E cid \in CampaignIds :
        /\ act.pc = "idle"
        /\ IF cid \notin CampIds
           THEN act' = [IdleAct EXCEPT !.pc = "notfound", !.cid = cid]
           ELSE LET rs == Recipients(contacts, campaigns[cid].target_tag)
                IN /\ Len(messages) + Cardinality(rs) <= MaxMessages
                   /\ act' = [pc |-> "write", cid |-> cid, recipients |-> rs]
        /\ UNCHANGED <<now, contacts, campaigns, messages, pc, rows, idx, started, sidx, hist, sendlog, audit_log>>

\* campaigns_start for an id past the last one the table has assigned.
campaigns_start_unknown ==
    /\ act.pc = "idle"
    /\ act' = [IdleAct EXCEPT !.pc = "notfound", !.cid = Len(campaigns) + 1]
    /\ UNCHANGED <<now, contacts, campaigns, messages, pc, rows, idx, started, sidx, hist, sendlog, audit_log>>

\* campaigns_start, the write transaction: started_at, one INSERT per
\* recipient, commit; then the audit entry.
campaigns_start_commit ==
    /\ act.pc = "write"
    /\ LET rs == SetToSeq(act.recipients)
       IN /\ campaigns' = [campaigns EXCEPT ![act.cid] = StartedWrite(@, now)]
          /\ messages' = messages \o [i \in 1..Len(rs) |-> NewMessage(act.cid, rs[i], now)]
          /\ sendlog' = sendlog \o [i \in 1..Len(rs) |-> 0]
    /\ act' = IdleAct
    /\ audit_log' = audit(audit_log)
    /\ UNCHANGED <<now, contacts, pc, rows, idx, started, sidx, hist>>

\* The 404 path with the audit entry of the activation.
RaisedAudited(log) == audit(log)

\* campaigns_start: the raise leaves the handler before audit() is reached.
Raised(log) == log

\* campaigns_start for an unknown id: HTTPException(404) after conn.close().
campaigns_start_notfound ==
    /\ act.pc = "notfound"
    /\ act' = IdleAct
    /\ audit_log' = Raised(audit_log)
    /\ UNCHANGED <<now, contacts, campaigns, messages, pc, rows, idx, started, sidx, hist, sendlog>>

\* ------------------------------------------------------------- the tick
\* The batch query without its ORDER BY: any queued messages, in any order.
BatchesAnyOrder(msgs) ==
    LET q == QueuedIds(msgs)
        k == BatchLimit(Cardinality(q))
    IN {b \in [1..k -> q] : \A i, j \in 1..k : i < j => b[i] # b[j]}

\* A batch the SELECT may return: the BatchLimit oldest queued messages in
\* created_at order (the order among equal created_at is the engine's).
Batches(msgs) ==
    LET q == QueuedIds(msgs)
        k == BatchLimit(Cardinality(q))
    IN {b \in [1..k -> q] :
          /\ \A i, j \in 1..k : i < j => b[i] # b[j]
          /\ \A i, j \in 1..k : i < j => msgs[b[i]].created_at <= msgs[b[j]].created_at
          /\ \A i \in 1..k : \A o \in q :
                (\A j \in 1..k : b[j] # o) => msgs[b[i]].created_at <= msgs[o].created_at}

\* The fetched row: m.* joined with c.consented, c.opted_out.
FetchedRow(i) ==
    [id |-> i,
     consented |-> contacts[messages[i].contact_id].consented,
     opted_out |-> contacts[messages[i].contact_id].opted_out]

AfterRow(n) == IF n > Len(rows) THEN "scan" ELSE "proc"

\* Campaigns that are started and not completed and whose latest activation
\* inserted no message: every message of theirs is older than started_at.
ZeroStarted ==
    {c \in CampIds :
        /\ campaigns[c].started_at # NoTime
        /\ campaigns[c].completed_at = NoTime
        /\ \A i \in MsgIds :
              messages[i].campaign_id = c => messages[i].created_at < campaigns[c].started_at}

\* worker_loop wakes up; process_queue_tick fetches the batch.
TickSelect ==
    /\ pc = "sleep"
    /\ \E b \in Batches(messages) :
          /\ rows' = [i \in 1..Len(b) |-> FetchedRow(b[i])]
          /\ pc' = IF Len(b) = 0 THEN "scan" ELSE "proc"
    /\ idx' = 1
    /\ started' = <<>>
    /\ sidx' = 1
    /\ hist' = [NoTick EXCEPT !.zero = ZeroStarted]
    /\ UNCHANGED <<now, contacts, campaigns, messages, act, sendlog, audit_log>>

ContactOk(p) == contacts[p].present /\ contacts[p].consented = 1 /\ contacts[p].opted_out = 0

\* One pass of the for loop up to the provider call: the safety checks, the
\* daily cap, or the 'sending' write.
TickProcess ==
    /\ pc = "proc"
    /\ LET r == rows[idx]
           m == messages[r.id]
       IN IF NoConsent(r)
          THEN /\ messages' = [messages EXCEPT ![r.id] = SkippedWrite(@, ERR_NO_CONSENT)]
               /\ hist' = [hist EXCEPT !.moved = @ + 1]
               /\ sendlog' = sendlog
               /\ idx' = idx + 1
               /\ pc' = AfterRow(idx + 1)
          ELSE IF CapReached(count_sent_today(messages, m.contact_id, now))
          THEN /\ messages' = [messages EXCEPT ![r.id] = SkippedWrite(@, ERR_DAILY_CAP)]
               /\ hist' = [hist EXCEPT !.moved = @ + 1]
               /\ sendlog' = sendlog
               /\ idx' = idx + 1
               /\ pc' = AfterRow(idx + 1)
          ELSE /\ messages' = [messages EXCEPT ![r.id] = SendingWrite(@)]
               /\ hist' = [hist EXCEPT
                     !.moved = @ + 1,
                     !.calls = @ + 1,
                     !.gate = IF ContactOk(m.contact_id) THEN "ok" ELSE "stale"]
               /\ sendlog' = [sendlog EXCEPT ![r.id] = @ + 1]
               /\ idx' = idx
               /\ pc' = "call"
    /\ UNCHANGED <<now, contacts, campaigns, rows, started, sidx, act, audit_log>>

\* send_sms_africastalking returns a reference: the 'sent' write.
TickSent ==
    /\ pc = "call"
    /\ messages' = [messages EXCEPT ![rows[idx].id] = SentWrite(@, PROVIDER_REF, now)]
    /\ idx' = idx + 1
    /\ pc' = AfterRow(idx + 1)
    /\ hist' = [hist EXCEPT !.gate = "none"]
    /\ UNCHANGED <<now, contacts, campaigns, rows, started, sidx, act, sendlog, audit_log>>

\* send_sms_africastalking raises: the 'failed' write of the except branch.
TickFailed ==
    /\ pc = "call"
    /\ messages' = [messages EXCEPT ![rows[idx].id] = FailedWrite(@, ERR_PROVIDER)]
    /\ idx' = idx + 1
    /\ pc' = AfterRow(idx + 1)
    /\ hist' = [hist EXCEPT !.gate = "none", !.raised = TRUE]
    /\ UNCHANGED <<now, contacts, campaigns, rows, started, sidx, act, sendlog, audit_log>>

\* The scan's SELECT: campaigns started and not completed.
OpenCampaigns(cs) ==
    SetToSeq({c \in 1..Len(cs) : cs[c].started_at # NoTime /\ cs[c].completed_at = NoTime})

\* The scan's COUNT: messages of a campaign still queued or sending.
Left(msgs, cid) ==
    Cardinality({i \in 1..Len(msgs) :
        msgs[i].campaign_id = cid /\ msgs[i].status \in {"queued", "sending"}})

AfterScan(n, open) == IF n > Len(open) THEN "close" ELSE "count"

TickScanSelect ==
    /\ pc = "scan"
    /\ started' = OpenCampaigns(campaigns)
    /\ sidx' = 1
    /\ pc' = AfterScan(1, OpenCampaigns(campaigns))
    /\ hist' = [hist EXCEPT !.scanned = TRUE]
    /\ UNCHANGED <<now, contacts, campaigns, messages, rows, idx, act, sendlog, audit_log>>

\* The scan's COUNT for one campaign; a non-zero count moves on.
TickScanCount ==
    /\ pc = "count"
    /\ IF Left(messages, started[sidx]) = 0
       THEN /\ pc' = "mark"
            /\ sidx' = sidx
       ELSE /\ pc' = AfterScan(sidx + 1, started)
            /\ sidx' = sidx + 1
    /\ UNCHANGED <<now, contacts, campaigns, messages, rows, idx, started, act, hist, sendlog, audit_log>>

\* The scan's UPDATE after a zero count.
TickScanMark ==
    /\ pc = "mark"
    /\ campaigns' = [campaigns EXCEPT ![started[sidx]] = CompletedWrite(@, now)]
    /\ sidx' = sidx + 1
    /\ pc' = AfterScan(sidx + 1, started)
    /\ UNCHANGED <<now, contacts, messages, rows, idx, started, act, hist, sendlog, audit_log>>

\* conn.close(); process_queue_tick returns and worker_loop sleeps.
TickClose ==
    /\ pc = "close"
    /\ pc' = "sleep"
    /\ rows' = <<>>
    /\ idx' = 1
    /\ started' = <<>>
    /\ sidx' = 1
    /\ hist' = NoTick
    /\ UNCHANGED <<now, contacts, campaigns, messages, act, sendlog, audit_log>>

\* ------------------------------------------------------------- storage faults
\* A statement of the tick raises (sqlite3.OperationalError) and changes
\* nothing. Outside the try block of the for loop the exception leaves
\* process_queue_tick and reaches the except branch of worker_loop.

\* The batch SELECT raises.
FaultSelect ==
    /\ pc = "sleep"
    /\ pc' = "except"
    /\ hist' = [NoTick EXCEPT !.zero = ZeroStarted]
    /\ UNCHANGED <<now, contacts, campaigns, messages, rows, idx, started, sidx, act, sendlog, audit_log>>

\* count_sent_today, the 'skipped' write or the 'sending' write raises.
FaultMessage ==
    /\ pc = "proc"
    /\ pc' = "except"
    /\ hist' = [hist EXCEPT !.raised = TRUE]
    /\ UNCHANGED <<now, contacts, campaigns, messages, rows, idx, started, sidx, act, sendlog, audit_log>>

\* The provider call returns and the 'sent' write raises inside the try
\* block: the except branch writes 'failed' with the storage error.
FaultSentWrite ==
    /\ pc = "call"
    /\ messages' = [messages EXCEPT ![rows[idx].id] = FailedWrite(@, ERR_STORAGE)]
    /\ idx' = idx + 1
    /\ pc' = AfterRow(idx + 1)
    /\ hist' = [hist EXCEPT !.gate = "none", !.raised = TRUE]
    /\ UNCHANGED <<now, contacts, campaigns, rows, started, sidx, act, sendlog, audit_log>>

\* The 'failed' write of the except branch raises: the message stays
\* 'sending' and the exception leaves the tick.
FaultFailedWrite ==
    /\ pc = "call"
    /\ pc' = "except"
    /\ hist' = [hist EXCEPT !.gate = "none", !.raised = TRUE]
    /\ UNCHANGED <<now, contacts, campaigns, messages, rows, idx, started, sidx, act, sendlog, audit_log>>

\* A statement of the completion scan raises.
FaultScan ==
    /\ pc \in {"scan", "count", "mark"}
    /\ pc' = "except"
    /\ UNCHANGED <<now, contacts, campaigns, messages, rows, idx, started, sidx, act, hist, sendlog, audit_log>>

\* A loop without the try: the exception ends the task.
AfterExceptDead == "dead"

\* worker_loop: after the except branch the loop goes on to the sleep.
AfterExcept == "sleep"

\* worker_loop: except Exception: print(...), then the sleep.
WorkerExcept ==
    /\ pc = "except"
    /\ pc' = AfterExcept
    /\ rows' = <<>>
    /\ idx' = 1
    /\ started' = <<>>
    /\ sidx' = 1
    /\ hist' = NoTick
    /\ UNCHANGED <<now, contacts, campaigns, messages, act, sendlog, audit_log>>

\* ------------------------------------------------------------- specification
Next ==
    \/ AdvanceClock
    \/ contacts_add
    \/ contacts_import_csv
    \/ contact_optout
    \/ unsubscribe
    \/ campaigns_create
    \/ campaigns_start_read
    \/ campaigns_start_commit
    \/ campaigns_start_notfound
    \/ TickSelect
    \/ TickProcess
    \/ TickSent
    \/ TickFailed
    \/ TickScanSelect
    \/ TickScanCount
    \/ TickScanMark
    \/ TickClose

Spec == Init /\ [][Next]_vars

\* The same program with activation requests for ids that were never assigned.
NextIds ==
    \/ Next
    \/ campaigns_start_unknown

SpecIds == Init /\ [][NextIds]_vars

\* The same program over a store whose statements may raise.
NextFault ==
    \/ Next
    \/ FaultSelect
    \/ FaultMessage
    \/ FaultSentWrite
    \/ FaultFailedWrite
    \/ FaultScan
    \/ WorkerExcept

SpecFault == Init /\ [][NextFault]_vars

\* Activation over a store that holds one campaign and contacts with any
\* flags, for tag lists and target tags as the forms accept them: any text.
MatchTags == {<<>>, <<"a">>, <<"A">>, <<"a", "b">>, <<"b", ",", "a">>, <<"b", ",", "a", "b">>}
MatchTargets == {<<>>, <<"a">>, <<"A">>, <<"b">>, <<"_">>, <<"a", "_">>}

InitMatch ==
    /\ now = 1
    /\ contacts \in [Phones -> [present : {TRUE}, consented : {0, 1}, opted_out : {0, 1},
                               tags : MatchTags]]
    /\ campaigns \in {<<[target_tag |-> tg, started_at |-> NoTime, completed_at |-> NoTime]>> :
                         tg \in MatchTargets}
    /\ messages = <<>>
    /\ pc = "sleep"
    /\ rows = <<>>
    /\ idx = 1
    /\ started = <<>>
    /\ sidx = 1
    /\ act = IdleAct
    /\ hist = NoTick
    /\ sendlog = <<>>
    /\ audit_log = 0

NextMatch ==
    \/ campaigns_start_read
    \/ campaigns_start_commit

SpecMatch == InitMatch /\ [][NextMatch]_vars

\* The steps of worker_loop. The event loop keeps scheduling the task: the
\* sleep ends, a statement returns or raises, and the provider call returns
\* or raises.
Worker ==
    \/ TickSelect
    \/ TickProcess
    \/ TickSent
    \/ TickFailed
    \/ TickScanSelect
    \/ TickScanCount
    \/ TickScanMark
    \/ TickClose

WorkerFault ==
    \/ Worker
    \/ FaultSelect
    \/ FaultMessage
    \/ FaultSentWrite
    \/ FaultFailedWrite
    \/ FaultScan
    \/ WorkerExcept

SpecLive == Spec /\ WF_vars(Worker)

SpecFaultLive == SpecFault /\ WF_vars(WorkerFault)

\* Storage faults that do not last: from some moment on no statement of the
\* tick raises.
SpecFaultDrain ==
    /\ SpecFault
    /\ WF_vars(WorkerFault)
    /\ <>[][Next \/ WorkerExcept]_vars

\* ------------------------------------------------------------- properties
Days == {Date(t) : t \in 1..MaxNow}

\* Messages of a contact with status sent and sent-time on day d.
SentOn(p, d) ==
    Cardinality({i \in MsgIds :
        /\ messages[i].contact_id = p
        /\ messages[i].status = "sent"
        /\ messages[i].sent_at # NoTime
        /\ Date(messages[i].sent_at) = d})

\* The step changes the status of message i.
Moves(i) == messages'[i].status # messages[i].status

\* C1: every message that reaches sent was moved to sending, and handed to
\* the provider, at a moment when its contact was consented and not opted
\* out in the store.
C1_ConsentGate ==
    [][\A i \in MsgIds :
          (Moves(i) /\ messages'[i].status = "sent") => hist.gate = "ok"]_vars

\* C2: for every contact and every calendar day, the messages with status
\* sent and sent-time on that day number at most MAX_DAILY_PER_CONTACT.
C2_CapEnforcement ==
    \A p \in Phones : \A d \in Days : SentOn(p, d) <= MAX_DAILY_PER_CONTACT

\* C2 witness: a contact at the cap today, with a further message of that
\* contact skipped for the cap.
C2_Witness ==
    \E p \in Phones :
        /\ SentOn(p, Date(now)) = MAX_DAILY_PER_CONTACT
        /\ \E i \in MsgIds :
              /\ messages[i].contact_id = p
              /\ messages[i].status = "skipped"
              /\ messages[i].error = ERR_DAILY_CAP

\* C3: a status that is sent, failed or skipped is not changed by any step.
C3_TerminalExclusive ==
    [][\A i \in MsgIds :
          messages[i].status \in Terminal => messages'[i].status = messages[i].status]_vars

\* C3 witness: a terminal message of a campaign that was activated again,
\* while a later tick is in a provider call for another message.
C3_Witness ==
    /\ pc = "call"
    /\ \E i, j \in MsgIds :
          /\ messages[i].status \in Terminal
          /\ messages[j].status = "sending"
          /\ messages[j].campaign_id = messages[i].campaign_id
          /\ messages[j].created_at > messages[i].created_at

\* C4: one tick moves at most SEND_PER_SECOND messages out of queued and
\* makes at most SEND_PER_SECOND provider calls.
C4_BatchBound ==
    /\ Len(rows) <= SEND_PER_SECOND
    /\ hist.moved <= SEND_PER_SECOND
    /\ hist.calls <= SEND_PER_SECOND

\* C4 witness: a tick that has used the whole batch on provider calls while
\* another message is still queued.
C4_Witness ==
    /\ hist.moved = SEND_PER_SECOND
    /\ hist.calls = SEND_PER_SECOND
    /\ QueuedIds(messages) # {}

\* An earlier row of the running batch, for the same contact as the row
\* at idx, was sent and brought its day's count up to the cap.
FirstReachedCap(f) ==
    /\ f < idx
    /\ messages[rows[f].id].contact_id = messages[rows[idx].id].contact_id
    /\ messages[rows[f].id].status = "sent"
    /\ SentOn(messages[rows[f].id].contact_id, Date(messages[rows[f].id].sent_at))
          >= MAX_DAILY_PER_CONTACT

\* The step sets the row at idx to skipped for the cap, with no provider call.
SkipsForCap ==
    /\ messages'[rows[idx].id].status = "skipped"
    /\ messages'[rows[idx].id].error = ERR_DAILY_CAP
    /\ hist'.calls = hist.calls
    /\ sendlog'[rows[idx].id] = 0

\* C5 as claimed: when an earlier message of the batch for the same contact
\* was sent and reached the cap, the tick sets the later one to skipped with
\* "daily cap reached" and makes no provider call for it.
C5_IntraTickCap ==
    [][(pc = "proc" /\ Moves(rows[idx].id) /\ \E f \in 1..Len(rows) : FirstReachedCap(f))
          => SkipsForCap]_vars

\* C5 amended: the same, when the later message is processed on the
\* calendar day on which the earlier one was sent.
C5_IntraTickCapSameDay ==
    [][(/\ pc = "proc"
        /\ Moves(rows[idx].id)
        /\ \E f \in 1..Len(rows) :
              /\ FirstReachedCap(f)
              /\ Date(messages[rows[f].id].sent_at) = Date(now))
          => SkipsForCap]_vars

\* C5 witness: in one tick, the first row was sent today and reached the
\* cap, and the second row, for the same contact, is skipped for the cap.
C5_Witness ==
    /\ pc = "scan"
    /\ Len(rows) >= 2
    /\ messages[rows[1].id].status = "sent"
    /\ Date(messages[rows[1].id].sent_at) = Date(now)
    /\ SentOn(messages[rows[1].id].contact_id, Date(now)) = MAX_DAILY_PER_CONTACT
    /\ messages[rows[2].id].contact_id = messages[rows[1].id].contact_id
    /\ messages[rows[2].id].status = "skipped"
    /\ messages[rows[2].id].error = ERR_DAILY_CAP
    /\ sendlog[rows[2].id] = 0

\* A campaign with a completion time has a start time that is not later
\* than the completion time.
StartNotAfterCompletion ==
    \A c \in CampIds :
        campaigns[c].completed_at # NoTime =>
            /\ campaigns[c].started_at # NoTime
            /\ campaigns[c].started_at <= campaigns[c].completed_at

\* C6: a completion time, once set, is never cleared or changed, and in
\* every reachable state a campaign with a completion time has a start
\* time that is not later than it.
C6_CompletionMonotonic ==
    /\ [][\A c \in CampIds :
            campaigns[c].completed_at # NoTime =>
                campaigns'[c].completed_at = campaigns[c].completed_at]_vars
    /\ []StartNotAfterCompletion

\* C7: once started_at is set, no step writes another value to it.
C7_StartSetOnce ==
    [][\A c \in CampIds :
          campaigns[c].started_at # NoTime =>
              campaigns'[c].started_at = campaigns[c].started_at]_vars

\* C8: sent has a provider reference and a sent time and no error; failed
\* and skipped have an error and neither of the other two; queued and
\* sending have none of the three.
C8_OutcomeFields ==
    \A i \in MsgIds :
        LET m == messages[i]
        IN /\ m.status = "sent" =>
                m.provider_id # NoText /\ m.sent_at # NoTime /\ m.error = NoText
           /\ m.status \in {"failed", "skipped"} =>
                m.error # NoText /\ m.provider_id = NoText /\ m.sent_at = NoTime
           /\ m.status \in {"queued", "sending"} =>
                m.provider_id = NoText /\ m.sent_at = NoTime /\ m.error = NoText

\* C8 witness: the table holds a sent, a failed and a skipped message.
C8_Witness ==
    \E i, j, k \in MsgIds :
        /\ messages[i].status = "sent"
        /\ messages[j].status = "failed"
        /\ messages[k].status = "skipped"

\* C9: when a step of processing a selected message has failed or raised,
\* the tick still processes every message selected after it and runs the
\* completion scan.
C9_Isolation ==
    (pc \in {"except", "close"} /\ hist.raised) =>
        /\ \A k \in 1..Len(rows) : k > idx => messages[rows[k].id].status # "queued"
        /\ hist.scanned

\* C10: a message becomes skipped only from queued, with the reason of the
\* check that failed, without a provider call in that step or ever.
C10_SkipPath ==
    [][\A i \in MsgIds :
          /\ (Moves(i) /\ messages'[i].status = "skipped") =>
                /\ messages[i].status = "queued"
                /\ i = rows[idx].id
                /\ messages'[i].error =
                      (IF NoConsent(rows[idx]) THEN ERR_NO_CONSENT ELSE ERR_DAILY_CAP)
                /\ messages'[i].provider_id = NoText
                /\ hist'.calls = hist.calls
                /\ sendlog[i] = 0
          /\ messages[i].status = "skipped" => sendlog'[i] = 0]_vars

\* C10 witness: a message skipped for consent and one skipped for the cap,
\* neither ever handed to the provider.
C10_Witness ==
    \E i, j \in MsgIds :
        /\ messages[i].status = "skipped"
        /\ messages[i].error = ERR_NO_CONSENT
        /\ messages[j].status = "skipped"
        /\ messages[j].error = ERR_DAILY_CAP
        /\ sendlog[i] = 0
        /\ sendlog[j] = 0

\* C11: no step moves a message to queued from another status, and the
\* provider is invoked at most once for a message over the whole execution.
C11_NoRetries ==
    [][\A i \in MsgIds :
          /\ Moves(i) => messages'[i].status # "queued"
          /\ sendlog'[i] <= 1]_vars

\* C11 witness: a failed message, handed to the provider once, that a later
\* tick has left out of its batch.
C11_Witness ==
    /\ pc = "scan"
    /\ \E i \in MsgIds :
          /\ messages[i].status = "failed"
          /\ sendlog[i] = 1
          /\ \A k \in 1..Len(rows) : rows[k].id # i

\* C12: the loop starts a tick and ends a tick again and again, whether the
\* ticks raise or not, and a tick starts only when the one before it has
\* ended and released its batch.
C12_LoopSurvival ==
    /\ []<>(pc = "sleep")
    /\ []<>(pc # "sleep")
    /\ [][(pc' # pc /\ pc' \in {"proc", "scan"} /\ pc \notin {"proc", "call"})
            => (pc = "sleep" /\ rows = <<>> /\ started = <<>> /\ hist = NoTick)]_vars

\* C12 witness: a tick is at the first row of its batch after an earlier tick
\* raised out of its except branch and left a message in sending.
C12_Witness ==
    /\ pc = "proc"
    /\ idx = 1
    /\ \E i \in MsgIds : messages[i].status = "sending"

\* C13: an activation that matches no recipient sets the start time and
\* inserts no message, and a campaign whose latest activation, committed
\* before a tick began, matched no recipient has its completion time when
\* that tick ends.
C13_ZeroRecipients ==
    /\ [][(act.pc = "write" /\ act.recipients = {} /\ act' = IdleAct)
            => (campaigns'[act.cid].started_at # NoTime /\ messages' = messages)]_vars
    /\ [](pc = "close" => \A c \in hist.zero : campaigns[c].completed_at # NoTime)

\* The queued messages that the running tick did not select.
Unselected == {j \in QueuedIds(messages) : \A k \in 1..Len(rows) : rows[k].id # j}

\* C14: a tick selects min(SEND_PER_SECOND, number queued) queued messages,
\* none newer than a queued message it leaves out, in ascending creation
\* order; it moves a message out of queued only at its position in that
\* order, going forward, and never while a strictly older message is queued
\* and unselected.
C14_OldestFirst ==
    [][/\ (pc = "sleep" /\ pc' \in {"proc", "scan"}) =>
             /\ Len(rows') = Min2(SEND_PER_SECOND, Cardinality(QueuedIds(messages)))
             /\ \A i, j \in 1..Len(rows') :
                   i < j => messages[rows'[i].id].created_at <= messages[rows'[j].id].created_at
             /\ \A k \in 1..Len(rows') :
                   /\ rows'[k].id \in QueuedIds(messages)
                   /\ \A o \in QueuedIds(messages) :
                         (\A n \in 1..Len(rows') : rows'[n].id # o) =>
                             messages[rows'[k].id].created_at <= messages[o].created_at
       /\ \A i \in MsgIds :
             (Moves(i) /\ messages[i].status = "queued") =>
                 /\ i = rows[idx].id
                 /\ idx' \in {idx, idx + 1}
                 /\ \A j \in Unselected : messages[j].created_at >= messages[i].created_at]_vars

\* C14 witness: a tick has processed a full batch of two messages of
\* different age while a message enqueued later stays queued and unselected.
C14_Witness ==
    /\ pc = "scan"
    /\ Len(rows) = SEND_PER_SECOND
    /\ Len(rows) >= 2
    /\ messages[rows[1].id].created_at < messages[rows[2].id].created_at
    /\ \E j \in Unselected : messages[j].created_at >= messages[rows[2].id].created_at

\* C15: an activation request goes down the 404 path exactly when its id is
\* not in the campaigns table, and the steps of that path change nothing:
\* no start time, no message, no audit entry.
C15_NotFound ==
    [][/\ (act.pc = "idle" /\ act'.pc = "notfound") => act'.cid \notin CampIds
       /\ (act.pc = "idle" /\ act'.pc = "write") => act'.cid \in CampIds
       /\ (act' # act /\ (act.pc = "notfound" \/ act'.pc = "notfound")) =>
             /\ act'.pc \in {"notfound", "idle"}
             /\ UNCHANGED <<now, contacts, campaigns, messages, pc, rows, idx, started, sidx,
                            hist, sendlog, audit_log>>]_vars

\* C15 witness: a request for an unknown id is on the 404 path while the
\* store holds a campaign that is not started and a contact that matches it.
C15_Witness ==
    /\ act.pc = "notfound"
    /\ \E c \in CampIds :
          /\ campaigns[c].started_at = NoTime
          /\ Recipients(contacts, campaigns[c].target_tag) # {}

\* s[i..j] is a token of the comma-separated list s: a maximal run without
\* a comma (the empty token where j = i - 1).
TokenAt(s, i, j) ==
    /\ i <= j + 1
    /\ i = 1 \/ s[i - 1] = ","
    /\ j = Len(s) \/ s[j + 1] = ","
    /\ \A k \in i..j : s[k] # ","

\* The contact is consented and not opted out and its tag list has the
\* target tag as an exact, case-insensitive token (or the target is empty).
Matches(c, tag) ==
    /\ c.present
    /\ c.consented = 1
    /\ c.opted_out = 0
    /\ \/ tag = <<>>
       \/ \E i \in 1..Len(c.tags) + 1, j \in 0..Len(c.tags) :
             /\ TokenAt(c.tags, i, j)
             /\ Lower(SubSeq(c.tags, i, j)) = Lower(tag)

\* C16: the commit of an activation appends, for each contact that matches
\* the campaign's target tag, exactly one queued message of the campaign,
\* and no message for any other contact.
C16_RecipientSelection ==
    [][(act.pc = "write" /\ act' = IdleAct) =>
          /\ SubSeq(messages', 1, Len(messages)) = messages
          /\ \A i \in Len(messages) + 1..Len(messages') :
                /\ messages'[i].status = "queued"
                /\ messages'[i].campaign_id = act.cid
          /\ \A p \in Phones :
                Cardinality({i \in Len(messages) + 1..Len(messages') :
                                messages'[i].contact_id = p})
                   = (IF Matches(contacts[p], campaigns[act.cid].target_tag) THEN 1 ELSE 0)]_vars

\* C17: every step that changes the contacts, campaigns or messages table
\* appends one audit entry.
C17_AuditCoverage ==
    [][<<contacts, campaigns, messages>>' # <<contacts, campaigns, messages>>
          => audit_log' = audit(audit_log)]_vars

\* C18: a consented flag that is 1 stays 1 and an opted_out flag that is 1
\* stays 1, whatever step is taken.
C18_FlagMonotonic ==
    [][\A p \in Phones :
          /\ contacts[p].consented = 1 => contacts'[p].consented = 1
          /\ contacts[p].opted_out = 1 => contacts'[p].opted_out = 1]_vars

\* C18 witness: a contact with both flags raised, after an activation
\* enqueued a message for it and a tick skipped the message for the opt-out.
C18_Witness ==
    \E i \in MsgIds :
        /\ messages[i].status = "skipped"
        /\ messages[i].error = ERR_NO_CONSENT
        /\ contacts[messages[i].contact_id].consented = 1
        /\ contacts[messages[i].contact_id].opted_out = 1

\* C19: a campaign with a completion time has no message queued or sending.
C19_CompletedDrained ==
    \A c \in CampIds : campaigns[c].completed_at # NoTime => Left(messages, c) = 0

\* C20: while the loop keeps running ticks, every message that is queued or
\* sending reaches sent, failed or skipped, and every started campaign gets
\* a completion time.
C20_Drain ==
    /\ \A i \in 1..MaxMessages :
          (i \in MsgIds /\ messages[i].status \in {"queued", "sending"})
             ~> (i \in MsgIds /\ messages[i].status \in Terminal)
    /\ \A c \in CampaignIds :
          (c \in CampIds /\ campaigns[c].started_at # NoTime)
             ~> (c \in CampIds /\ campaigns[c].completed_at # NoTime)

====
